---- MODULE Spec2Model ----
(***************************************************************************)
(* A model of codeaid.py: one invocation of the command-line assistant.    *)
(*                                                                         *)
(* Every Python str is a sequence of tokens.  A token is one character     *)
(* ("X", "c", " ") where the code looks at characters (str.replace,        *)
(* str.strip), and a run of characters standing for a stretch of literal   *)
(* text that holds no "X" where it does not.  None is a value distinct     *)
(* from every str.                                                         *)
(***************************************************************************)
EXTENDS Integers, Sequences, FiniteSets, TLC

-----------------------------------------------------------------------------
(* Bounds of the explored inputs. *)

MaxSourceLen == 3
MaxTargetLen == 1
MaxResponseLen == 2

-----------------------------------------------------------------------------
(* Values *)

\* Python's None: no str of the model holds the token "None".
None == <<"None">>

\* All sequences over alphabet of length at most n.
TextsUpTo(alphabet, n) == UNION {[1..k -> alphabet] : k \in 0..n}

\* Contents a source file can have; "X" lets a file hold the placeholder.
SourceTexts == TextsUpTo({"X", "c"}, MaxSourceLen)

\* Values of --target: not given, or a language name (possibly holding "X").
TargetValues == {None} \cup TextsUpTo({"X", "R"}, MaxTargetLen)

\* Characters str.strip() removes.
Whitespace == {" ", "\n", "\t"}

\* Message contents the completion service can return.
ResponseTexts == TextsUpTo({" ", "r"}, MaxResponseLen)

\* bool(s) for s an Optional[str]: None and "" are false.
TruthyNotNone(s) == s /= None
TruthyNotEmpty(s) == s /= <<>>
Truthy(s) == s /= None /\ s /= <<>>

-----------------------------------------------------------------------------
(* PromptManager *)

\* The dict literal of _initialize_prompts, in insertion order.  Each
\* template is its opening words and a token for the rest of its text; the
\* translate template is written out around its placeholder.
InitializePrompts ==
  << [key |-> <<"summarize">>,
      value |-> <<"Act as a programming assistant.", " [summarize] ">>],
     [key |-> <<"defects">>,
      value |-> <<"Act as an expert software debugger.", " [defects] ">>],
     [key |-> <<"security">>,
      value |-> <<"Act as a software security expert.", " [security] ">>],
     [key |-> <<"optimize">>,
      value |-> <<"Act as a software optimization expert.", " [optimize] ">>],
     [key |-> <<"refactor">>,
      value |-> <<"Act as a software refactoring expert.", " [refactor] ">>],
     [key |-> <<"document">>,
      value |-> <<"Act as a software documentation expert.", " [document] ">>],
     [key |-> <<"complexity">>,
      value |-> <<"Act as an expert software engineer dedicated to reducing complexity.",
                  " [complexity] ">>],
     [key |-> <<"naming">>,
      value |-> <<"Act as an expert software engineer prioritizing readability.",
                  " [naming] ">>],
     [key |-> <<"translate">>,
      value |-> <<"Act as a software translation expert. Review the provided source code and rewrite it in ",
                  "X", "X", "X",
                  " language, preserving the original functionality and logic.\n">>],
     [key |-> <<"cleanup">>,
      value |-> <<"Your role is a software cleanup specialist.", " [cleanup] ">>],
     [key |-> <<"todo">>,
      value |-> <<"You are an agile story writing expert.", " [todo] ">>],
     [key |-> <<"ut">>,
      value |-> <<"You are a test development expert.", " [ut] ">>] >>

\* dict.keys(): the keys in insertion order.
Keys(d) == [i \in 1..Len(d) |-> d[i].key]

\* ', '.join(names)
RECURSIVE Join(_)
Join(names) ==
  IF names = <<>> THEN <<>>
  ELSE IF Len(names) = 1 THEN names[1]
  ELSE names[1] \o <<", ">> \o Join(Tail(names))

\* PromptManager.__init__: the object's two attributes.
PromptManager ==
  [prompts |-> InitializePrompts, goals_list |-> Join(Keys(InitializePrompts))]

\* get_prompt_by_goal: self.prompts.get(goal)
GetPromptOrFirst(pm, goal) ==
  IF \E i \in 1..Len(pm.prompts) : pm.prompts[i].key = goal
  THEN pm.prompts[CHOOSE i \in 1..Len(pm.prompts) : pm.prompts[i].key = goal].value
  ELSE pm.prompts[1].value
GetPromptByGoal(pm, goal) ==
  IF \E i \in 1..Len(pm.prompts) : pm.prompts[i].key = goal
  THEN pm.prompts[CHOOSE i \in 1..Len(pm.prompts) : pm.prompts[i].key = goal].value
  ELSE None

\* goals(): the comma-separated list built at construction.
Goals(pm) == pm.goals_list

-----------------------------------------------------------------------------
(* OpenAIClient.compose_prompt_message *)

Placeholder == <<"X", "X", "X">>

\* str.replace(old, new): every non-overlapping occurrence, left to right.
RECURSIVE Replace(_, _, _)
Replace(s, old, new) ==
  IF Len(s) < Len(old) THEN s
  ELSE IF SubSeq(s, 1, Len(old)) = old
       THEN new \o Replace(SubSeq(s, Len(old) + 1, Len(s)), old, new)
       ELSE <<Head(s)>> \o Replace(Tail(s), old, new)

\* The return value and whether logging.error was called.
ComposeReplaceAfter(goal, context, pm, target) ==
  LET prompt == GetPromptByGoal(pm, goal) IN
  IF prompt = None
  THEN [result |-> None, logged |-> TRUE]
  ELSE [result |-> IF target /= None /\ goal = <<"translate">>
                   THEN Replace(prompt \o context, Placeholder, target)
                   ELSE prompt \o context,
        logged |-> FALSE]
ComposePromptMessage(goal, context, pm, target) ==
  LET prompt == GetPromptByGoal(pm, goal) IN
  IF prompt = None
  THEN [result |-> None, logged |-> TRUE]
  ELSE [result |-> (IF target /= None /\ goal = <<"translate">>
                    THEN Replace(prompt, Placeholder, target)
                    ELSE prompt) \o context,
        logged |-> FALSE]

\* str.strip(): leading and trailing whitespace removed.
RECURSIVE LStrip(_)
LStrip(s) == IF s /= <<>> /\ Head(s) \in Whitespace THEN LStrip(Tail(s)) ELSE s
RECURSIVE RStrip(_)
RStrip(s) ==
  IF s /= <<>> /\ s[Len(s)] \in Whitespace THEN RStrip(SubSeq(s, 1, Len(s) - 1)) ELSE s
StripLeftOnly(s) == LStrip(s)
Strip(s) == RStrip(LStrip(s))

-----------------------------------------------------------------------------
(* print_usage_instructions and create_prompt_manager *)

\* The three lines print_usage_instructions prints.
UsageLines(pm) ==
  << <<"Usage is:\n\n\tasst.py --goal <goal> --filename <filename> --target <language>">>,
     <<"\t\tWhere goal is: [">> \o Goals(pm) \o <<" ]">>,
     <<"\t\tand <filename> is the source file to analyze, <language> is the target language for translate.\n">> >>

\* The two conditions under which create_prompt_manager prints and exits.
UsageErrorNoTargetCheck(goal, filename, target) ==
  goal = None \/ filename = None
UsageError(goal, filename, target) ==
  \/ goal = None \/ filename = None
  \/ goal = <<"translate">> /\ target = None

-----------------------------------------------------------------------------
(* The outcomes of the calls main makes into the environment. *)

\* read_source_file: open() and read(); only FileNotFoundError is caught,
\* any other error of open() or read() leaves the function as an exception.
ReadSourceFileEmptyOnMissing(entry) ==
  CASE entry.kind = "file" ->
         [result |-> entry.text, logged |-> FALSE, raised |-> FALSE]
    [] entry.kind = "missing" ->
         [result |-> <<>>, logged |-> FALSE, raised |-> FALSE]
    [] OTHER ->
         [result |-> None, logged |-> FALSE, raised |-> TRUE]
ReadSourceFile(entry) ==
  CASE entry.kind = "file" ->
         [result |-> entry.text, logged |-> FALSE, raised |-> FALSE]
    [] entry.kind = "missing" ->
         [result |-> None, logged |-> TRUE, raised |-> FALSE]
    [] OTHER ->
         [result |-> None, logged |-> FALSE, raised |-> TRUE]

\* _get_openai_key: os.environ.get('OPENAI_KEY', None), sys.exit(1) on None.
GetOpenAIKeyOrEmpty(env) ==
  [key |-> IF env = None THEN <<>> ELSE env, logged |-> FALSE, exits |-> FALSE]
GetOpenAIKey(env) ==
  IF env = None
  THEN [key |-> None, logged |-> TRUE, exits |-> TRUE]
  ELSE [key |-> env, logged |-> FALSE, exits |-> FALSE]

\* What client.chat.completions.create(...).choices[0].message.content.strip()
\* can do: raise (network, authentication, quota, no text in the message) or
\* yield the text of the first choice.
ApiReplies ==
  {[kind |-> "error", text |-> <<>>]}
    \cup {[kind |-> "content", text |-> t] : t \in ResponseTexts}

-----------------------------------------------------------------------------
(* State *)

VARIABLES
  argv,            \* the command line: --goal, --file, --target (None: not given)
  environ,         \* os.environ.get('OPENAI_KEY'): None when not set
  file,            \* what the file system holds at the path given with --file
  pc,              \* position of the process in main
  args,            \* the Namespace parse_arguments returned
  prompt_manager,  \* main's prompt_manager
  source,          \* main's source
  openai_key,      \* llm_client.openai_key
  prompt,          \* main's prompt
  reply,           \* what the remote call did
  response,        \* main's response
  stdout,          \* the texts printed, one per print call
  log,             \* the logging.error calls
  sent,            \* the messages handed to chat.completions.create
  fileReads,       \* calls of open()
  credReads,       \* reads of OPENAI_KEY
  composeCalls,    \* calls of compose_prompt_message
  exitStatus,      \* the process's exit status, -1 while it runs
  fault            \* the process ended by an uncaught exception

vars ==
  <<argv, environ, file, pc, args, prompt_manager, source, openai_key, prompt,
    reply, response, stdout, log, sent, fileReads, credReads, composeCalls,
    exitStatus, fault>>

\* A local that is not bound yet.
Unbound == <<"Unbound">>

GoalValues ==
  {None, <<>>, <<"bogus">>} \cup {InitializePrompts[i].key : i \in 1..Len(InitializePrompts)}

FileValues ==
  {[kind |-> "missing", text |-> <<>>], [kind |-> "unreadable", text |-> <<>>]}
    \cup {[kind |-> "file", text |-> t] : t \in SourceTexts}

Locals ==
  /\ args = [goal |-> Unbound, filename |-> Unbound, target |-> Unbound]
  /\ prompt_manager = [prompts |-> <<>>, goals_list |-> <<>>]
  /\ source = Unbound
  /\ openai_key = Unbound
  /\ prompt = Unbound
  /\ reply = [kind |-> "none", text |-> <<>>]
  /\ response = Unbound
  /\ stdout = <<>>
  /\ log = <<>>
  /\ sent = <<>>
  /\ fileReads = 0
  /\ credReads = 0
  /\ composeCalls = 0
  /\ exitStatus = -1
  /\ fault = FALSE

Init ==
  /\ argv \in [goal : GoalValues, filename : {None, <<"foo.py">>}, target : TargetValues]
  /\ environ \in {None, <<"sk-key">>}
  /\ file \in FileValues
  /\ pc = "parse_arguments"
  /\ Locals

\* sys.exit(status), or an uncaught exception (status 1 and a traceback).
Exit(status, uncaught) ==
  /\ pc' = "exited"
  /\ exitStatus' = status
  /\ fault' = uncaught

Inputs == <<argv, environ, file>>

-----------------------------------------------------------------------------
(* main, statement by statement *)

\* args = parse_arguments( )
ParseArguments ==
  /\ pc = "parse_arguments"
  /\ args' = argv
  /\ pc' = "create_prompt_manager"
  /\ UNCHANGED <<Inputs, prompt_manager, source, openai_key, prompt, reply,
                 response, stdout, log, sent, fileReads, credReads,
                 composeCalls, exitStatus, fault>>

\* prompt_manager = create_prompt_manager( args.goal, args.filename, args.target )
CreatePromptManager ==
  /\ pc = "create_prompt_manager"
  /\ prompt_manager' = PromptManager
  /\ IF UsageError(args.goal, args.filename, args.target)
     THEN /\ stdout' = stdout \o UsageLines(PromptManager)
          /\ Exit(1, FALSE)
     ELSE /\ pc' = "read_source_file"
          /\ UNCHANGED <<stdout, exitStatus, fault>>
  /\ UNCHANGED <<Inputs, args, source, openai_key, prompt, reply, response,
                 log, sent, fileReads, credReads, composeCalls>>

\* source = read_source_file( args.filename )
ReadSource ==
  /\ pc = "read_source_file"
  /\ fileReads' = fileReads + 1
  /\ LET r == ReadSourceFile(file) IN
       IF r.raised
       THEN /\ Exit(1, TRUE)
            /\ UNCHANGED <<source, log>>
       ELSE /\ source' = r.result
            /\ log' = IF r.logged THEN Append(log, "Source filename not found.") ELSE log
            /\ pc' = "if_source"
            /\ UNCHANGED <<exitStatus, fault>>
  /\ UNCHANGED <<Inputs, args, prompt_manager, openai_key, prompt, reply,
                 response, stdout, sent, credReads, composeCalls>>

\* if source: llm_client = OpenAIClient( )
ConstructClient ==
  /\ pc = "if_source"
  /\ Truthy(source)
  /\ credReads' = credReads + 1
  /\ LET k == GetOpenAIKey(environ) IN
       /\ log' = IF k.logged THEN Append(log, "OPENAI_KEY is not set") ELSE log
       /\ IF k.exits
          THEN /\ Exit(1, FALSE)
               /\ UNCHANGED openai_key
          ELSE /\ openai_key' = k.key
               /\ pc' = "compose_prompt_message"
               /\ UNCHANGED <<exitStatus, fault>>
  /\ UNCHANGED <<Inputs, args, prompt_manager, source, prompt, reply, response,
                 stdout, sent, fileReads, composeCalls>>

\* if source: (false) -- main returns
SkipSource ==
  /\ pc = "if_source"
  /\ ~Truthy(source)
  /\ pc' = "main_returned"
  /\ UNCHANGED <<Inputs, args, prompt_manager, source, openai_key, prompt,
                 reply, response, stdout, log, sent, fileReads, credReads,
                 composeCalls, exitStatus, fault>>

\* The call of compose_prompt_message, made at `at` and returning to `to`.
ComposeStep(at, to) ==
  /\ pc = at
  /\ composeCalls' = composeCalls + 1
  /\ LET c == ComposePromptMessage(args.goal, source, prompt_manager, args.target) IN
       /\ prompt' = c.result
       /\ log' = IF c.logged THEN Append(log, "Goal is not recognized.") ELSE log
  /\ pc' = to
  /\ UNCHANGED <<Inputs, args, prompt_manager, source, openai_key, reply,
                 response, stdout, sent, fileReads, credReads, exitStatus, fault>>

\* prompt = llm_client.compose_prompt_message( args.goal, source, prompt_manager, args.target )
ComposePrompt == ComposeStep("compose_prompt_message", "if_prompt")

\* if prompt: response = llm_client.execute_prompt( prompt )
ExecutePromptRetry ==
  /\ pc = "if_prompt"
  /\ Truthy(prompt)
  /\ Len(sent) < 2
  /\ sent' = Append(sent, prompt)
  /\ \E r \in ApiReplies :
       /\ reply' = r
       /\ IF r.kind = "error"
          THEN UNCHANGED <<pc, response, exitStatus, fault>>
          ELSE /\ response' = Strip(r.text)
               /\ pc' = "if_response"
               /\ UNCHANGED <<exitStatus, fault>>
  /\ UNCHANGED <<Inputs, args, prompt_manager, source, openai_key, prompt,
                 stdout, log, fileReads, credReads, composeCalls>>
ExecutePrompt ==
  /\ pc = "if_prompt"
  /\ Truthy(prompt)
  /\ sent' = Append(sent, prompt)
  /\ \E r \in ApiReplies :
       /\ reply' = r
       /\ IF r.kind = "error"
          THEN /\ Exit(1, TRUE)
               /\ UNCHANGED response
          ELSE /\ response' = Strip(r.text)
               /\ pc' = "if_response"
               /\ UNCHANGED <<exitStatus, fault>>
  /\ UNCHANGED <<Inputs, args, prompt_manager, source, openai_key, prompt,
                 stdout, log, fileReads, credReads, composeCalls>>

\* if prompt: (false) -- main returns
SkipPrompt ==
  /\ pc = "if_prompt"
  /\ ~Truthy(prompt)
  /\ pc' = "main_returned"
  /\ UNCHANGED <<Inputs, args, prompt_manager, source, openai_key, prompt,
                 reply, response, stdout, log, sent, fileReads, credReads,
                 composeCalls, exitStatus, fault>>

\* if response: print( response )
PrintResponse ==
  /\ pc = "if_response"
  /\ Truthy(response)
  /\ stdout' = Append(stdout, response)
  /\ pc' = "main_returned"
  /\ UNCHANGED <<Inputs, args, prompt_manager, source, openai_key, prompt,
                 reply, response, log, sent, fileReads, credReads,
                 composeCalls, exitStatus, fault>>

\* if response: (false) -- main returns
SkipResponse ==
  /\ pc = "if_response"
  /\ ~Truthy(response)
  /\ pc' = "main_returned"
  /\ UNCHANGED <<Inputs, args, prompt_manager, source, openai_key, prompt,
                 reply, response, stdout, log, sent, fileReads, credReads,
                 composeCalls, exitStatus, fault>>

\* main( ) has returned: sys.exit(0)
SysExit0 ==
  /\ pc = "main_returned"
  /\ Exit(0, FALSE)
  /\ UNCHANGED <<Inputs, args, prompt_manager, source, openai_key, prompt,
                 reply, response, stdout, log, sent, fileReads, credReads,
                 composeCalls>>

Next ==
  \/ ParseArguments
  \/ CreatePromptManager
  \/ ReadSource
  \/ ConstructClient
  \/ SkipSource
  \/ ComposePrompt
  \/ ExecutePrompt
  \/ SkipPrompt
  \/ PrintResponse
  \/ SkipResponse
  \/ SysExit0

Spec == Init /\ [][Next]_vars

-----------------------------------------------------------------------------
(* compose_prompt_message on its own: called with any goal, any context    *)
(* and any target, as a unit test of the method would call it.             *)

InitCompose ==
  /\ argv \in [goal : GoalValues, filename : {<<"foo.py">>}, target : TargetValues]
  /\ environ = <<"sk-key">>
  /\ file \in {[kind |-> "file", text |-> t] : t \in SourceTexts}
  /\ pc = "call_compose"
  /\ args = argv
  /\ prompt_manager = PromptManager
  /\ source = file.text
  /\ openai_key = environ
  /\ prompt = Unbound
  /\ reply = [kind |-> "none", text |-> <<>>]
  /\ response = Unbound
  /\ stdout = <<>>
  /\ log = <<>>
  /\ sent = <<>>
  /\ fileReads = 0
  /\ credReads = 0
  /\ composeCalls = 0
  /\ exitStatus = -1
  /\ fault = FALSE

ComposeCall == ComposeStep("call_compose", "composed")

NextCompose == ComposeCall

SpecCompose == InitCompose /\ [][NextCompose]_vars

-----------------------------------------------------------------------------
(* What the properties below are stated in: written from the claims, not   *)
(* through the operators above.                                            *)

\* The twelve goal names.
RegisteredGoals ==
  { <<"summarize">>, <<"defects">>, <<"security">>, <<"optimize">>,
    <<"refactor">>, <<"document">>, <<"complexity">>, <<"naming">>,
    <<"translate">>, <<"cleanup">>, <<"todo">>, <<"ut">> }

\* The usage line naming the goals, written out.
ExpectedGoalsLine ==
  << "\t\tWhere goal is: [",
     "summarize", ", ", "defects", ", ", "security", ", ", "optimize", ", ",
     "refactor", ", ", "document", ", ", "complexity", ", ", "naming", ", ",
     "translate", ", ", "cleanup", ", ", "todo", ", ", "ut", " ]" >>

\* The command line lacks --goal or --file, or --target with --goal translate.
FlagsMissing ==
  \/ argv.goal = None
  \/ argv.filename = None
  \/ argv.goal = <<"translate">> /\ argv.target = None

\* The template the table holds for a registered goal.
TemplateOf(goal) ==
  InitializePrompts[CHOOSE i \in 1..Len(InitializePrompts) :
                      InitializePrompts[i].key = goal].value

\* Where the placeholder occurs in t.
Occurrences(t) ==
  {i \in 1..(Len(t) - 2) : t[i] = "X" /\ t[i + 1] = "X" /\ t[i + 2] = "X"}

RECURSIVE ConcatAll(_)
ConcatAll(ss) == IF ss = <<>> THEN <<>> ELSE Head(ss) \o ConcatAll(Tail(ss))

\* t with each occurrence of the placeholder (none overlapping another)
\* replaced by target and every other position kept.
EveryOccurrenceReplaced(t, target) ==
  ConcatAll([i \in 1..Len(t) |->
               IF i \in Occurrences(t) THEN target
               ELSE IF (i - 1) \in Occurrences(t) \/ (i - 2) \in Occurrences(t)
                    THEN <<>>
                    ELSE <<t[i]>>])

\* The prompt the claims describe for a registered goal.
ExpectedPrompt(goal, text, target) ==
  (IF goal = <<"translate">> /\ target /= None
   THEN EveryOccurrenceReplaced(TemplateOf(goal), target)
   ELSE TemplateOf(goal)) \o text

\* p is raw without its leading and trailing whitespace.
IsTrimOf(p, raw) ==
  \E a, b \in 0..Len(raw) :
    /\ a + b <= Len(raw)
    /\ p = SubSeq(raw, a + 1, Len(raw) - b)
    /\ \A k \in 1..a : raw[k] \in Whitespace
    /\ \A k \in (Len(raw) - b + 1)..Len(raw) : raw[k] \in Whitespace
    /\ p /= <<>> => (p[1] \notin Whitespace /\ p[Len(p)] \notin Whitespace)

\* create_prompt_manager has run.
Validated == pc \notin {"parse_arguments", "create_prompt_manager"}

-----------------------------------------------------------------------------
(* Properties *)

\* C1: when --goal or --file is missing, or --goal is translate and
\* --target is missing, the process prints the usage text, whose second
\* line lists all twelve goal names separated by commas, and exits with
\* status 1 having read no file and no credential and made no network call.
C1_UsageError ==
  (Validated /\ FlagsMissing) =>
    /\ pc = "exited" /\ exitStatus = 1 /\ ~fault
    /\ Len(stdout) = 3
    /\ stdout[2] = ExpectedGoalsLine
    /\ fileReads = 0 /\ credReads = 0 /\ composeCalls = 0 /\ sent = <<>>

C1_Witness ==
  /\ pc = "exited" /\ stdout /= <<>>
  /\ argv.goal = <<"translate">> /\ argv.filename /= None /\ argv.target = None

\* C2 as stated: with the flags given, a registered goal, an existing source
\* file and the credential set, the client is invoked exactly once with the
\* composed prompt, the trimmed response is printed and the exit status is 0.
C2_AsStated ==
  (/\ pc = "exited" /\ ~FlagsMissing
   /\ argv.goal \in RegisteredGoals
   /\ file.kind = "file"
   /\ environ /= None) =>
    /\ sent = <<ExpectedPrompt(argv.goal, file.text, argv.target)>>
    /\ Len(stdout) = 1 /\ IsTrimOf(stdout[1], reply.text)
    /\ exitStatus = 0

\* C2 amended: with the flags given, a registered goal, a readable source
\* file that is not empty and the credential set, the client is invoked
\* exactly once with the composed prompt; when that call returns a text that
\* is not empty once trimmed, exactly the trimmed text is printed and the
\* exit status is 0; when it raises or the trimmed text is empty, nothing is
\* printed.
C2_Amended ==
  (/\ pc = "exited" /\ ~FlagsMissing
   /\ argv.goal \in RegisteredGoals
   /\ file.kind = "file" /\ file.text /= <<>>
   /\ environ /= None) =>
    /\ sent = <<ExpectedPrompt(argv.goal, file.text, argv.target)>>
    /\ IF reply.kind = "content" /\ \E k \in 1..Len(reply.text) : reply.text[k] \notin Whitespace
       THEN /\ Len(stdout) = 1 /\ IsTrimOf(stdout[1], reply.text)
            /\ exitStatus = 0 /\ ~fault
       ELSE /\ stdout = <<>>
            /\ (reply.kind = "error") = fault
            /\ exitStatus = (IF fault THEN 1 ELSE 0)

C2_Witness ==
  /\ pc = "exited" /\ exitStatus = 0
  /\ argv.goal = <<"translate">> /\ argv.target = <<"R">>
  /\ file.text = <<"X", "X", "X">>
  /\ reply.text = <<" ", "r">>
  /\ stdout = << <<"r">> >>

\* C3 as stated: once a usage error, an unrecognized goal or a missing
\* source file has been detected, the process exits with status 1.
C3_AsStated ==
  (/\ pc = "exited"
   /\ \/ FlagsMissing
      \/ log = <<"Goal is not recognized.">>
      \/ log = <<"Source filename not found.">>) =>
    exitStatus = 1

\* C4: for a goal outside the goal set compose_prompt_message logs an error
\* and returns None, whatever the source text and the target, without
\* raising; the invocation that composed with such a goal makes no network
\* call and prints nothing.
C4_UnknownGoal ==
  (composeCalls = 1 /\ args.goal \notin RegisteredGoals) =>
    /\ prompt = None
    /\ log = <<"Goal is not recognized.">>
    /\ ~fault
    /\ sent = <<>> /\ stdout = <<>>
    /\ pc = "if_prompt" =>
         \A ctx \in SourceTexts, t \in TargetValues :
           ComposePromptMessage(args.goal, ctx, prompt_manager, t)
             = [result |-> None, logged |-> TRUE]

C4_Witness ==
  /\ pc = "exited" /\ composeCalls = 1
  /\ args.goal = <<"bogus">> /\ log /= <<>>

\* C5: when the file does not exist read_source_file logs an error and
\* returns None without raising, and afterwards no client is constructed,
\* the credential is not read, no prompt is composed, no network call is
\* made and nothing is printed.
C5_MissingFile ==
  (fileReads = 1 /\ file.kind = "missing") =>
    /\ source = None
    /\ log = <<"Source filename not found.">>
    /\ ~fault
    /\ credReads = 0 /\ openai_key = Unbound
    /\ composeCalls = 0 /\ prompt = Unbound
    /\ sent = <<>> /\ stdout = <<>>

C5_Witness ==
  /\ pc = "exited" /\ fileReads = 1 /\ file.kind = "missing"
  /\ environ = None /\ argv.goal = <<"bogus">>

\* C6: the credential is read at most once, at the construction of the
\* client; when it is absent there, the process logs an error and exits at
\* once with status 1, composing no prompt (so logging no unrecognized
\* goal), making no network call and printing nothing; when it is present
\* the client holds the value read.
C6_Credential ==
  /\ credReads <= 1
  /\ (openai_key /= Unbound) => (credReads = 1 /\ openai_key = environ)
  /\ (credReads = 1 /\ environ = None) =>
       /\ pc = "exited" /\ exitStatus = 1 /\ ~fault
       /\ log = <<"OPENAI_KEY is not set">>
       /\ openai_key = Unbound
       /\ composeCalls = 0 /\ sent = <<>> /\ stdout = <<>>
  /\ (credReads = 1 /\ environ /= None) => openai_key = environ

C6_Witness ==
  /\ pc = "exited" /\ credReads = 1 /\ environ = None
  /\ argv.goal = <<"bogus">>

\* C7: for a registered goal compose_prompt_message returns the template,
\* with every placeholder replaced by the target exactly when the goal is
\* translate and a target is given, followed directly by the source text;
\* the result ends with the source text unchanged and nothing is logged.
C7_Compose ==
  (pc = "composed" /\ args.goal \in RegisteredGoals) =>
    /\ prompt = ExpectedPrompt(args.goal, source, args.target)
    /\ Len(prompt) >= Len(source)
    /\ SubSeq(prompt, Len(prompt) - Len(source) + 1, Len(prompt)) = source
    /\ (args.goal /= <<"translate">> \/ args.target = None) =>
         SubSeq(prompt, 1, Len(prompt) - Len(source)) = TemplateOf(args.goal)
    /\ log = <<>>

C7_Witness ==
  /\ pc = "composed"
  /\ args.goal = <<"translate">> /\ args.target = <<"R">>
  /\ source = <<"X", "X", "X">>
  /\ prompt = <<TemplateOf(<<"translate">>)[1], "R", TemplateOf(<<"translate">>)[5],
                "X", "X", "X">>

\* C8: once the table is built, a lookup of any of the twelve goal names
\* gives that goal's one template, which is not empty, and a lookup of any
\* other string, the empty one included, gives None; this holds in every
\* later state, so the table is never changed.
C8_Lookup ==
  Validated =>
    /\ {prompt_manager.prompts[i].key : i \in 1..Len(prompt_manager.prompts)}
         = RegisteredGoals
    /\ Len(prompt_manager.prompts) = 12
    /\ \A g \in (GoalValues \cup RegisteredGoals) \ {None} :
         IF g \in RegisteredGoals
         THEN /\ GetPromptByGoal(prompt_manager, g) /= None
              /\ Len(GetPromptByGoal(prompt_manager, g)) > 0
              /\ GetPromptByGoal(prompt_manager, g) = TemplateOf(g)
         ELSE GetPromptByGoal(prompt_manager, g) = None

C8_Witness ==
  /\ pc = "exited" /\ composeCalls = 1
  /\ args.goal = <<>> /\ prompt = None

\* A step of the pipeline has failed.
StepFailed == fault \/ log /= <<>> \/ exitStatus = 1

\* C9: an invocation reads at most one file, reads the credential and
\* composes at most once and makes at most one network call; after a step
\* has failed no file is read, no credential is read, nothing is composed,
\* sent or printed, and the process only returns from main and exits.
C9_SingleShot ==
  /\ [](fileReads <= 1 /\ credReads <= 1 /\ composeCalls <= 1 /\ Len(sent) <= 1)
  /\ [][StepFailed =>
          /\ fileReads' = fileReads /\ credReads' = credReads
          /\ composeCalls' = composeCalls
          /\ sent' = sent /\ stdout' = stdout
          /\ pc' \in {"main_returned", "exited"}]_vars

C9_Witness ==
  /\ pc = "exited" /\ fault /\ reply.kind = "error"
  /\ Len(sent) = 1 /\ stdout = <<>>

\* C10: when the file exists and is empty read_source_file returns the empty
\* text and logs nothing, and main then reads no credential, constructs no
\* client, composes nothing, sends nothing, prints nothing and the process
\* exits with status 0.
C10_EmptyFile ==
  (fileReads = 1 /\ file.kind = "file" /\ file.text = <<>>) =>
    /\ source = <<>>
    /\ log = <<>> /\ ~fault
    /\ credReads = 0 /\ openai_key = Unbound
    /\ composeCalls = 0 /\ sent = <<>> /\ stdout = <<>>
    /\ pc = "exited" => exitStatus = 0

C10_Witness ==
  /\ pc = "exited" /\ exitStatus = 0
  /\ file.kind = "file" /\ file.text = <<>>
  /\ environ = None /\ fileReads = 1

====
